---- MODULE Spec2Model ----
(***************************************************************************)
(* Transport core of mediasoup-handler: Transport (src/src/Transport.ts),  *)
(* SendTransport (src/src/SendTransport.ts) and RecvTransport              *)
(* (src/unnamed/part_001), with the handler (engine adapter) and the       *)
(* callers as the environment.                                             *)
(*                                                                         *)
(* One transport is modelled.  Every public method is one action; every    *)
(* settlement of a handler promise is one action.  The AwaitQueue class is *)
(* imported from the awaitqueue package, which is not part of the sources; *)
(* its behaviour is taken from section 4.1 of the specification.           *)
(***************************************************************************)
EXTENDS Naturals, Sequences, FiniteSets, TLC

\* Number of operations the callers submit in one behaviour of Spec.
MaxOps == 2
\* Number of operations submitted in one behaviour of SpecRecv.
MaxRecvOps == 3
\* Number of operations submitted in one behaviour of SpecPreflight.
MaxPreflightOps == 2
\* Number of operations submitted in one behaviour of SpecSetup.
MaxSetupOps == 2
\* Number of operations submitted in one behaviour of SpecData.
MaxDataOps == 2
\* Number of operations submitted in one behaviour of SpecStats.
MaxStatsOps == 3
\* Number of operations submitted in one behaviour of SpecEncodings.
MaxEncodingOps == 1
\* Number of operations submitted in one behaviour of SpecLive.
MaxLiveOps == 2
\* Number of close() calls in one behaviour.
MaxCloseCalls == 2

VARIABLES
    klass,                    \* "SendTransport" or "RecvTransport"
    direction,                \* Transport._direction
    canProduceByKind,         \* Transport._canProduceByKind
    maxSctpMessageSize,       \* Transport._maxSctpMessageSize (0 for null)
    extendedRtpCapabilities,  \* Transport._extendedRtpCapabilities (codec names)
    callBudget,               \* number of operations the callers will submit
    closed,                   \* Transport._closed
    iceGatheringState,        \* Transport._iceGatheringState
    connectionState,          \* Transport._connectionState
    probatorConsumerCreated,  \* RecvTransport._probatorConsumerCreated
    awaitQueue,               \* Transport._awaitQueue: [pending, stopped]
    running,                  \* handler call the executing task awaits, or NoCall
    detached,                 \* handler calls in flight that no task awaits
    setup,                    \* constructor's generateCertificate().then(run)
    tasks,                    \* submitted operations, by id (index)
    outcome,                  \* how each operation's promise settled
    pushed,                   \* ids handed to _awaitQueue.push()
    callLog,                  \* handler calls begun on behalf of queued tasks
    statsInFlight,            \* ids of direct (not queued) stats calls in flight
    trackStopped,             \* ids of produce() calls whose track was stopped
    handlerAnswer,            \* the handler's answer to each task's own call
    executingAtClose,         \* ids of the tasks executing when close() ran
    probatorsCreated,         \* number of 'probator' receives that resolved
    emitted,                  \* what the last step emitted / called back
    connectRequest,           \* the '@connect' the last step handled, if any
    closeCalls,               \* number of close() calls made
    closeResult,              \* "none", "returned" or "threw" (last close())
    queueStops,               \* number of _awaitQueue.stop() calls
    handlerCloseCalls,        \* number of _handler.close() calls
    observerCloseEmits        \* number of observer 'close' events

cfgVars == <<klass, direction, canProduceByKind, maxSctpMessageSize,
             extendedRtpCapabilities, callBudget>>
stateVars == <<iceGatheringState, connectionState>>
queueVars == <<awaitQueue, running, detached, callLog>>
taskVars == <<tasks, outcome, pushed, trackStopped, statsInFlight>>
histVars == <<handlerAnswer, executingAtClose, probatorsCreated>>
closeVars == <<closeCalls, closeResult, queueStops, handlerCloseCalls,
               observerCloseEmits>>
vars == <<cfgVars, closed, stateVars, probatorConsumerCreated, queueVars,
          setup, taskVars, histVars, emitted, connectRequest, closeVars>>

\* The fields of the transport itself (what the code stores).
transportVars == <<cfgVars, closed, stateVars, probatorConsumerCreated,
                   awaitQueue, running, detached>>

---------------------------------------------------------------------------
\* Value sets.

MediaKinds == {"audio", "video"}
IceGatheringStates == {"new", "gathering", "complete"}
ConnectionStates ==
    {"new", "connecting", "connected", "failed", "disconnected", "closed"}

NoTrack == [kind |-> "none", readyState |-> "none"]
\* A handler call: the task that makes it, the method, the trackId handed to
\* receive(), and whether it is the receive consume() makes for the
\* probator (the second receive of the task) or the task's own call.
NoCall ==
    [task |-> 0, method |-> "none", trackId |-> "none", probator |-> FALSE]
NoConnect == [raised |-> FALSE, closed |-> FALSE]

Range(s) == {s[i] : i \in DOMAIN s}

\* The encodings option of produce(): undefined, a value that is not an
\* array, or an array of entries.
NoEncodings == [kind |-> "undefined", entries |-> <<>>]
NotArrayEncodings == [kind |-> "notArray", entries |-> <<>>]
ArrayOf(entries) == [kind |-> "array", entries |-> entries]

\* An encoding entry gives every field a value with its JavaScript type,
\* or Absent.
EncodingFields ==
    {"active", "dtx", "scalabilityMode", "scaleResolutionDownBy",
     "maxBitrate", "maxFramerate", "adaptivePtime", "priority",
     "networkPriority", "rid"}
Absent == [type |-> "undefined", val |-> "undefined"]
BoolTrue == [type |-> "boolean", val |-> "true"]
BoolFalse == [type |-> "boolean", val |-> "false"]
EncodingValues ==
    {BoolTrue, BoolFalse, [type |-> "string", val |-> "s"],
     [type |-> "number", val |-> "1"]}

---------------------------------------------------------------------------
\* ortc helpers (src/ortc.ts is not among the sources).

\* ortc.canReceive(rtpParameters, extendedRtpCapabilities)
canReceive(rtpParameters, caps) == rtpParameters.codec \in caps

\* ortc.validateRtpParameters(rtpParameters): TRUE when it does not throw
validateRtpParameters(rtpParameters) == rtpParameters = "valid"

\* ortc.validateSctpStreamParameters(params): TRUE when it does not throw
validateSctpStreamParameters(sctpStreamParameters) ==
    sctpStreamParameters = "valid"

---------------------------------------------------------------------------
\* The tasks handed to the queue.

\* The handler method each operation calls first.
FirstMethod(op) ==
    CASE op = "getStats" -> "getTransportStats"
      [] op = "getProducerStats" -> "getSenderStats"
      [] op = "getConsumerStats" -> "getReceiverStats"
      [] op = "produce" -> "send"
      [] op = "produceData" -> "sendDataChannel"
      [] op = "closeProducer" -> "stopSending"
      [] op = "pauseProducer" -> "pauseSending"
      [] op = "resumeProducer" -> "resumeSending"
      [] op = "replaceTrack" -> "replaceTrack"
      [] op = "setMaxSpatialLayer" -> "setMaxSpatialLayer"
      [] op = "setRtpEncodingParameters" -> "setRtpEncodingParameters"
      [] op = "consume" -> "receive"
      [] op = "consumeData" -> "receiveDataChannel"
      [] op = "closeConsumer" -> "stopReceiving"
      [] op = "pauseConsumer" -> "pauseReceiving"
      [] op = "resumeConsumer" -> "resumeReceiving"
      [] op = "restartIce" -> "restartIce"
      [] op = "updateIceServers" -> "updateIceServers"

\* Tasks made of one handler call whose result is the task's result.
SingleCallOps ==
    {"closeProducer", "pauseProducer", "resumeProducer", "replaceTrack",
     "setMaxSpatialLayer", "setRtpEncodingParameters", "consumeData",
     "closeConsumer", "pauseConsumer", "resumeConsumer", "restartIce",
     "updateIceServers"}

\* produce(): the task throws before any handler call when encodings is
\* given and is not an array.  The throw is inside the async task: the
\* promise it rejects is seen by the queue and by the caller in a later
\* microtask, and until then the task is the executing one.
RejectsAtStart(t) ==
    t.op = "produce" /\ t.args.encodings.kind = "notArray"

\* produce(): the .catch() on the queued promise stops the track.
StopsTrackOnFailure(t) ==
    t.op = "produce" /\ t.args.stopTracks

\* The executing task number id has made no handler call.
NoHandlerCall(id) ==
    [task |-> id, method |-> "none", trackId |-> "none", probator |-> FALSE]

\* The call a task makes when it starts.
FirstCall(id, t) ==
    IF RejectsAtStart(t) THEN NoHandlerCall(id)
    ELSE [task |-> id, method |-> FirstMethod(t.op),
          trackId |-> IF t.op = "consume" THEN t.args.id ELSE "none",
          probator |-> FALSE]

\* The handler calls in flight on behalf of queued tasks.
InFlight ==
    (IF running.method = "none" THEN {} ELSE {running}) \cup detached

---------------------------------------------------------------------------
\* AwaitQueue (specification section 4.1).

\* The queue runs its next task: ids are the waiting tasks, out the outcomes
\* and tstop the stopped tracks so far, log the handler calls so far.  The
\* task runs up to its first await, or up to its throw, at once.
ExecuteNext(ts, ids, out, tstop, log) ==
    /\ outcome' = out
    /\ trackStopped' = tstop
    /\ IF ids = <<>>
       THEN /\ running' = NoCall
            /\ awaitQueue' = [awaitQueue EXCEPT !.pending = <<>>]
            /\ callLog' = log
       ELSE LET c == FirstCall(Head(ids), ts[Head(ids)])
            IN  /\ running' = c
                /\ awaitQueue' = [awaitQueue EXCEPT !.pending = Tail(ids)]
                /\ callLog' = IF c.method = "none" THEN log
                              ELSE Append(log, c)

\* The executing task settles with result res; the queue goes on.
TaskSettles(res, log) ==
    LET id == running.task
        \* a promise settles once
        out == IF outcome[id] = "pending"
               THEN [outcome EXCEPT ![id] = res] ELSE outcome
        tstop == IF out[id] # "ok" /\ StopsTrackOnFailure(tasks[id])
                 THEN trackStopped \cup {id} ELSE trackStopped
    IN  ExecuteNext(tasks, awaitQueue.pending, out, tstop, log)

\* _awaitQueue.push(task): a stopped queue rejects at once; an idle queue
\* starts the task; otherwise the task waits its turn.
AwaitQueuePush(t) ==
    LET id == Len(tasks) + 1
        ts == Append(tasks, t)
    IN  /\ tasks' = ts
        /\ pushed' = pushed \cup {id}
        /\ handlerAnswer' = Append(handlerAnswer, "none")
        /\ UNCHANGED <<detached, statsInFlight>>
        /\ IF awaitQueue.stopped
           THEN /\ outcome' = Append(outcome, "Stopped")
                /\ trackStopped' = IF StopsTrackOnFailure(t)
                                   THEN trackStopped \cup {id}
                                   ELSE trackStopped
                /\ UNCHANGED <<awaitQueue, running, callLog>>
           ELSE IF running # NoCall
           THEN /\ outcome' = Append(outcome, "pending")
                /\ awaitQueue' =
                      [awaitQueue EXCEPT !.pending = Append(@, id)]
                /\ UNCHANGED <<running, callLog, trackStopped>>
           ELSE ExecuteNext(ts, <<id>>, Append(outcome, "pending"),
                            trackStopped, callLog)

\* Mutant of AwaitQueueStop: stop() also rejects the executing task.
AwaitQueueStop_RejectsExecuting ==
    [queue |-> [pending |-> <<>>, stopped |-> TRUE],
     rejected |-> Range(awaitQueue.pending) \cup
                  (IF running = NoCall THEN {} ELSE {running.task})]

\* _awaitQueue.stop(): the queue is stopped for good and the tasks still
\* waiting to start are rejected; the executing task is left alone.
AwaitQueueStop ==
    [queue |-> [pending |-> <<>>, stopped |-> TRUE],
     rejected |-> Range(awaitQueue.pending)]

\* An operation that throws before it reaches the queue.
FailsSynchronously(t, error) ==
    /\ tasks' = Append(tasks, t)
    /\ outcome' = Append(outcome, error)
    /\ handlerAnswer' = Append(handlerAnswer, "none")
    /\ UNCHANGED <<pushed, trackStopped, statsInFlight, queueVars>>


\* The callers still have an operation to submit.
CanSubmit == Len(tasks) < callBudget

\* What every public method other than close() leaves alone.
MethodFrame ==
    /\ emitted' = <<>>
    /\ connectRequest' = NoConnect
    /\ UNCHANGED <<cfgVars, closed, stateVars, probatorConsumerCreated, setup,
                   executingAtClose, probatorsCreated, closeVars>>

\* A method that enqueues one handler call, with or without a check of
\* the closed flag before it.
QueuedCall(op, checksClosed) ==
    /\ CanSubmit
    /\ LET t == [op |-> op, args |-> <<>>, afterClose |-> closed]
       IN  IF checksClosed /\ closed
           THEN FailsSynchronously(t, "Closed")
           ELSE AwaitQueuePush(t)
    /\ MethodFrame

\* Mutant of StatsCall: the statistics call goes through the queue.
StatsCall_Enqueued(op) == QueuedCall(op, TRUE)

\* A direct (not queued) statistics call.
StatsCall(op) ==
    /\ CanSubmit
    /\ tasks' = Append(tasks, [op |-> op, args |-> <<>>, afterClose |-> closed])
    /\ handlerAnswer' = Append(handlerAnswer, "none")
    /\ IF closed
       THEN /\ outcome' = Append(outcome, "Closed")
            /\ UNCHANGED statsInFlight
       ELSE /\ outcome' = Append(outcome, "pending")
            /\ statsInFlight' = statsInFlight \cup {Len(tasks) + 1}
    /\ UNCHANGED <<pushed, trackStopped, queueVars>>
    /\ MethodFrame

---------------------------------------------------------------------------
\* Transport

\* Optional numbers are sets: {} is undefined, {n} is the number n.
Truthy(x) == x # {} /\ x # {0}

getStats == StatsCall("getStats")

restartIce(iceParameters) ==
    /\ CanSubmit
    /\ LET t == [op |-> "restartIce",
                 args |-> [iceParameters |-> iceParameters],
                 afterClose |-> closed]
       IN  IF closed THEN FailsSynchronously(t, "Closed")
           ELSE IF iceParameters = "undefined"
           THEN FailsSynchronously(t, "TypeError")
           ELSE AwaitQueuePush(t)
    /\ MethodFrame

updateIceServers(iceServers) ==
    /\ CanSubmit
    /\ LET t == [op |-> "updateIceServers",
                 args |-> [iceServers |-> iceServers],
                 afterClose |-> closed]
       IN  IF closed THEN FailsSynchronously(t, "Closed")
           ELSE IF iceServers # "array"
           THEN FailsSynchronously(t, "TypeError")
           ELSE AwaitQueuePush(t)
    /\ MethodFrame

---------------------------------------------------------------------------
\* SendTransport

\* Mutant of producePreflight: the producible-kind check is missing.
producePreflight_NoKindCheck(track) ==
    IF closed THEN "Closed"
    ELSE IF track = NoTrack THEN "TypeError"
    ELSE IF direction # "send" THEN "Unsupported"
    ELSE IF track.readyState = "ended" THEN "TrackEnded"
    ELSE "pass"

\* Mutant of normalizeEncoding: the caller's entry is handed on as it is.
normalizeEncoding_CopiesAll(encoding) == encoding

\* produce(): the entry built from one entry of the caller's encodings.
normalizeEncoding(encoding) ==
    [f \in EncodingFields |->
        CASE f = "active" ->
                IF encoding.active = BoolFalse THEN BoolFalse ELSE BoolTrue
          [] f \in {"dtx", "adaptivePtime"} ->
                IF encoding[f].type = "boolean" THEN encoding[f] ELSE Absent
          [] f \in {"scalabilityMode", "priority", "networkPriority"} ->
                IF encoding[f].type = "string" THEN encoding[f] ELSE Absent
          [] f \in {"scaleResolutionDownBy", "maxBitrate", "maxFramerate"} ->
                IF encoding[f].type = "number" THEN encoding[f] ELSE Absent
          [] OTHER -> Absent]

\* produce(): the encodings handed to _handler.send().
normalizeEncodings(encodings) ==
    IF encodings.kind # "array" \/ encodings.entries = <<>>
    THEN NoEncodings
    ELSE ArrayOf([k \in DOMAIN encodings.entries |->
                     normalizeEncoding(encodings.entries[k])])

\* The checks of produce() before it enqueues: "pass" or the error thrown.
producePreflight(track) ==
    IF closed THEN "Closed"
    ELSE IF track = NoTrack THEN "TypeError"
    ELSE IF direction # "send" THEN "Unsupported"
    ELSE IF ~canProduceByKind[track.kind] THEN "Unsupported"
    ELSE IF track.readyState = "ended" THEN "TrackEnded"
    ELSE "pass"

produce(track, encodings, stopTracks) ==
    /\ klass = "SendTransport"
    /\ CanSubmit
    /\ LET t == [op |-> "produce",
                 args |-> [track |-> track, encodings |-> encodings,
                           stopTracks |-> stopTracks,
                           handlerEncodings |->
                               normalizeEncodings(encodings)],
                 afterClose |-> closed]
           pre == producePreflight(track)
       IN  IF pre # "pass" THEN FailsSynchronously(t, pre)
           ELSE AwaitQueuePush(t)
    /\ MethodFrame

\* The ordered flag produceData() hands to the handler.
produceDataOrdered(ordered, maxPacketLifeTime, maxRetransmits) ==
    IF Truthy(maxPacketLifeTime) \/ Truthy(maxRetransmits)
    THEN FALSE ELSE ordered

produceDataPreflight ==
    IF closed THEN "Closed"
    ELSE IF direction # "send" THEN "Unsupported"
    ELSE IF maxSctpMessageSize = 0 THEN "Unsupported"
    ELSE "pass"

produceData(ordered, maxPacketLifeTime, maxRetransmits) ==
    /\ klass = "SendTransport"
    /\ CanSubmit
    /\ LET t == [op |-> "produceData",
                 args |-> [ordered |-> ordered,
                           maxPacketLifeTime |-> maxPacketLifeTime,
                           maxRetransmits |-> maxRetransmits,
                           handlerOrdered |->
                               produceDataOrdered(ordered, maxPacketLifeTime,
                                                  maxRetransmits)],
                 afterClose |-> closed]
           pre == produceDataPreflight
       IN  IF pre # "pass" THEN FailsSynchronously(t, pre)
           ELSE AwaitQueuePush(t)
    /\ MethodFrame

\* Whether the producer lifecycle methods look at the closed flag.
ProducerCallChecksClosed == FALSE

closeProducer ==
    klass = "SendTransport"
    /\ QueuedCall("closeProducer", ProducerCallChecksClosed)
pauseProducer ==
    klass = "SendTransport"
    /\ QueuedCall("pauseProducer", ProducerCallChecksClosed)
resumeProducer ==
    klass = "SendTransport"
    /\ QueuedCall("resumeProducer", ProducerCallChecksClosed)
replaceTrack ==
    klass = "SendTransport"
    /\ QueuedCall("replaceTrack", ProducerCallChecksClosed)
setMaxSpatialLayer ==
    klass = "SendTransport"
    /\ QueuedCall("setMaxSpatialLayer", ProducerCallChecksClosed)
setRtpEncodingParameters ==
    klass = "SendTransport"
    /\ QueuedCall("setRtpEncodingParameters", ProducerCallChecksClosed)

getProducerStats ==
    klass = "SendTransport" /\ StatsCall("getProducerStats")

---------------------------------------------------------------------------
\* RecvTransport

\* The checks of consume() before it enqueues: "pass" or the error thrown.
consumePreflight(id, producerId, kind, rtpParameters) ==
    IF closed THEN "Closed"
    ELSE IF direction # "recv" THEN "Unsupported"
    ELSE IF id = "undefined" THEN "TypeError"
    ELSE IF producerId = "undefined" THEN "TypeError"
    ELSE IF kind # "audio" /\ kind # "video" THEN "TypeError"
    ELSE IF ~canReceive(rtpParameters, extendedRtpCapabilities)
    THEN "Unsupported"
    ELSE "pass"

consume(id, producerId, kind, rtpParameters) ==
    /\ klass = "RecvTransport"
    /\ CanSubmit
    /\ LET t == [op |-> "consume",
                 args |-> [id |-> id, producerId |-> producerId,
                           kind |-> kind, rtpParameters |-> rtpParameters],
                 afterClose |-> closed]
           pre == consumePreflight(id, producerId, kind, rtpParameters)
       IN  IF pre # "pass" THEN FailsSynchronously(t, pre)
           ELSE AwaitQueuePush(t)
    /\ MethodFrame

consumeDataPreflight(id, dataProducerId, sctpStreamParameters) ==
    IF closed THEN "Closed"
    ELSE IF direction # "recv" THEN "Unsupported"
    ELSE IF maxSctpMessageSize = 0 THEN "Unsupported"
    ELSE IF id = "undefined" THEN "TypeError"
    ELSE IF dataProducerId = "undefined" THEN "TypeError"
    ELSE IF ~validateSctpStreamParameters(sctpStreamParameters)
    THEN "TypeError"
    ELSE "pass"

consumeData(id, dataProducerId, sctpStreamParameters) ==
    /\ klass = "RecvTransport"
    /\ CanSubmit
    /\ LET t == [op |-> "consumeData",
                 args |-> [id |-> id, dataProducerId |-> dataProducerId,
                           sctpStreamParameters |-> sctpStreamParameters],
                 afterClose |-> closed]
           pre == consumeDataPreflight(id, dataProducerId,
                                       sctpStreamParameters)
       IN  IF pre # "pass" THEN FailsSynchronously(t, pre)
           ELSE AwaitQueuePush(t)
    /\ MethodFrame

closeConsumer ==
    klass = "RecvTransport" /\ QueuedCall("closeConsumer", TRUE)
pauseConsumer ==
    klass = "RecvTransport" /\ QueuedCall("pauseConsumer", TRUE)
resumeConsumer ==
    klass = "RecvTransport" /\ QueuedCall("resumeConsumer", TRUE)

getConsumerStats ==
    klass = "RecvTransport" /\ StatsCall("getConsumerStats")

---------------------------------------------------------------------------
\* Settlement of the handler's promises.

\* What every settlement leaves alone.
SettleFrame ==
    /\ emitted' = <<>>
    /\ connectRequest' = NoConnect
    /\ UNCHANGED <<cfgVars, closed, stateVars, setup, tasks, pushed,
                   statsInFlight, executingAtClose, closeVars>>

\* The call of a single-call task settles: the task settles with it.
callSettles(answer) ==
    /\ running # NoCall
    /\ tasks[running.task].op \in SingleCallOps
    /\ handlerAnswer' = [handlerAnswer EXCEPT ![running.task] = answer]
    /\ TaskSettles(IF answer = "resolve" THEN "ok" ELSE "AdapterFailure",
                   callLog)
    /\ UNCHANGED <<detached, probatorConsumerCreated, probatorsCreated>>
    /\ SettleFrame

\* Mutant of unwindCalls: the catch block only rethrows.
unwindCalls_None(id) == <<>>

\* produce(): the handler calls made by the catch block around
\* validateRtpParameters().
unwindCalls(id) ==
    <<[task |-> id, method |-> "stopSending", trackId |-> "none",
       probator |-> FALSE]>>

\* produce(): the rejection of the task that threw on its encodings
\* reaches the queue and the caller.
encodingsCheckThrows ==
    /\ running # NoCall
    /\ running.method = "none"
    /\ TaskSettles("TypeError", callLog)
    /\ UNCHANGED <<detached, handlerAnswer, probatorConsumerCreated,
                   probatorsCreated>>
    /\ SettleFrame

\* _handler.send() settles inside produce().
sendSettles(answer, rtpParameters) ==
    /\ running # NoCall
    /\ running.method = "send"
    /\ UNCHANGED <<probatorConsumerCreated, probatorsCreated>>
    /\ SettleFrame
    /\ IF answer = "reject"
       THEN /\ handlerAnswer' = [handlerAnswer EXCEPT ![running.task] = "reject"]
            /\ TaskSettles("AdapterFailure", callLog)
            /\ UNCHANGED detached
       ELSE IF validateRtpParameters(rtpParameters)
       THEN /\ handlerAnswer' = [handlerAnswer EXCEPT ![running.task] = "resolve"]
            /\ TaskSettles("ok", callLog)
            /\ UNCHANGED detached
       ELSE LET unwind == unwindCalls(running.task)
            IN  /\ handlerAnswer' =
                      [handlerAnswer EXCEPT ![running.task] = "malformed"]
                \* stopSending() is called and not awaited; the task throws
                /\ detached' = detached \cup Range(unwind)
                /\ TaskSettles("Malformed", callLog \o unwind)

\* The stopSending() that produce() fired and did not await settles; its
\* failure is swallowed by .catch(() => {}).
unwindSettles(answer) ==
    /\ \E c \in detached : detached' = detached \ {c}
    /\ UNCHANGED <<awaitQueue, running, callLog, outcome, trackStopped,
                   handlerAnswer, probatorConsumerCreated, probatorsCreated>>
    /\ SettleFrame

\* _handler.sendDataChannel() settles inside produceData().
sendDataChannelSettles(answer, sctpStreamParameters) ==
    /\ running # NoCall
    /\ running.method = "sendDataChannel"
    /\ LET a == IF answer = "reject" THEN "reject"
                ELSE IF validateSctpStreamParameters(sctpStreamParameters)
                THEN "resolve" ELSE "malformed"
       IN  /\ handlerAnswer' = [handlerAnswer EXCEPT ![running.task] = a]
           /\ TaskSettles(CASE a = "reject" -> "AdapterFailure"
                            [] a = "resolve" -> "ok"
                            [] a = "malformed" -> "Malformed", callLog)
    /\ UNCHANGED <<detached, probatorConsumerCreated, probatorsCreated>>
    /\ SettleFrame

\* Mutant of needsProbator: the marker is not consulted.
needsProbator_IgnoresMarker(kind) == kind = "video"

\* consume(): whether the probator Consumer must be created now.
needsProbator(kind) ==
    ~probatorConsumerCreated /\ kind = "video"

\* _handler.receive() of the caller's own Consumer settles inside consume().
receiveSettles(answer) ==
    /\ running # NoCall
    /\ running.method = "receive"
    /\ ~running.probator
    /\ handlerAnswer' = [handlerAnswer EXCEPT ![running.task] = answer]
    /\ IF answer = "reject"
       THEN TaskSettles("AdapterFailure", callLog)
       ELSE IF needsProbator(tasks[running.task].args.kind)
       THEN LET c == [task |-> running.task, method |-> "receive",
                      trackId |-> "probator", probator |-> TRUE]
            IN  /\ running' = c
                /\ callLog' = Append(callLog, c)
                /\ UNCHANGED <<awaitQueue, outcome, trackStopped>>
       ELSE TaskSettles("ok", callLog)
    /\ UNCHANGED <<detached, probatorConsumerCreated, probatorsCreated>>
    /\ SettleFrame

\* Mutant of probatorSetsMarker: the marker is set after the try block.
probatorSetsMarker_Always(answer) == TRUE

\* consume(): the marker is set inside the try block, after the awaited
\* probator receive.
probatorSetsMarker(answer) == answer = "resolve"

\* Mutant of probatorOutcome: the catch block rethrows.
probatorOutcome_Rethrows(answer) ==
    IF answer = "resolve" THEN "ok" ELSE "AdapterFailure"

\* consume(): the failure of the probator receive is caught and logged; the
\* task returns the result of its own receive.
probatorOutcome(answer) == "ok"

\* _handler.receive() of the probator Consumer settles inside consume().
probatorReceiveSettles(answer) ==
    /\ running # NoCall
    /\ running.method = "receive"
    /\ running.probator
    /\ probatorConsumerCreated' =
          (probatorConsumerCreated \/ probatorSetsMarker(answer))
    /\ probatorsCreated' =
          IF answer = "resolve" THEN probatorsCreated + 1
          ELSE probatorsCreated
    /\ TaskSettles(probatorOutcome(answer), callLog)
    /\ UNCHANGED <<detached, handlerAnswer>>
    /\ SettleFrame

\* A direct statistics call settles.
statsSettles(answer) ==
    /\ \E id \in statsInFlight :
          /\ statsInFlight' = statsInFlight \ {id}
          /\ outcome' = [outcome EXCEPT ![id] =
                IF answer = "resolve" THEN "ok" ELSE "AdapterFailure"]
          /\ handlerAnswer' = [handlerAnswer EXCEPT ![id] = answer]
    /\ emitted' = <<>>
    /\ connectRequest' = NoConnect
    /\ UNCHANGED <<cfgVars, closed, stateVars, probatorConsumerCreated,
                   queueVars, setup, tasks, pushed, trackStopped,
                   executingAtClose, probatorsCreated, closeVars>>

\* The constructor's generateCertificate() settles; on success the handler
\* is started with run().
generateCertificateSettles(answer) ==
    /\ setup = "pending"
    /\ setup' = IF answer = "resolve" THEN "run" ELSE "failed"
    /\ emitted' = <<>>
    /\ connectRequest' = NoConnect
    /\ UNCHANGED <<cfgVars, closed, stateVars, probatorConsumerCreated,
                   queueVars, taskVars, histVars, closeVars>>

---------------------------------------------------------------------------
\* close()

\* close() returns at once on a closed transport.
closeIsNoop == closed

\* Mutant of closeStopsQueue: close() leaves the queue running.
closeStopsQueue_Skipped == [queue |-> awaitQueue, rejected |-> {}]

\* close() stops the queue.
closeStopsQueue == AwaitQueueStop

close(handlerCloseThrows) ==
    /\ closeCalls < MaxCloseCalls
    /\ closeCalls' = closeCalls + 1
    /\ connectRequest' = NoConnect
    /\ UNCHANGED <<cfgVars, iceGatheringState, probatorConsumerCreated,
                   running, detached, callLog, setup, tasks, pushed,
                   statsInFlight, handlerAnswer, probatorsCreated>>
    /\ IF closeIsNoop
       THEN /\ closeResult' = "returned"
            /\ emitted' = <<>>
            /\ UNCHANGED <<closed, connectionState, awaitQueue, outcome,
                           trackStopped, executingAtClose, queueStops,
                           handlerCloseCalls, observerCloseEmits>>
       ELSE LET rejected == closeStopsQueue.rejected
            IN  /\ closed' = TRUE
                \* this._awaitQueue.stop()
                /\ awaitQueue' = closeStopsQueue.queue
                /\ queueStops' = queueStops + 1
                /\ outcome' = [i \in DOMAIN outcome |->
                                  IF i \in rejected /\ outcome[i] = "pending"
                                  THEN "Stopped" ELSE outcome[i]]
                /\ trackStopped' = trackStopped \cup
                      {i \in rejected : StopsTrackOnFailure(tasks[i])}
                /\ executingAtClose' =
                      IF running = NoCall THEN {} ELSE {running.task}
                \* this._handler.close()
                /\ handlerCloseCalls' = handlerCloseCalls + 1
                /\ IF handlerCloseThrows
                   THEN /\ closeResult' = "threw"
                        /\ emitted' = <<>>
                        /\ UNCHANGED <<connectionState, observerCloseEmits>>
                   ELSE /\ closeResult' = "returned"
                        /\ connectionState' = "closed"
                        /\ observerCloseEmits' = observerCloseEmits + 1
                        /\ emitted' = <<[event |-> "close", value |-> "none"]>>

---------------------------------------------------------------------------
\* handleHandler(): the handler's events.

EventFrame ==
    UNCHANGED <<cfgVars, closed, probatorConsumerCreated, queueVars, setup,
                taskVars, histVars, closeVars>>

\* Mutant of connectAnswer: the return after errback() is missing.
connectAnswer_FallsThrough ==
    IF closed
    THEN <<[event |-> "errback", value |-> "Closed"],
           [event |-> "callback", value |-> "none"]>>
    ELSE <<[event |-> "callback", value |-> "none"]>>

\* The answer the '@connect' listener gives before it returns.
connectAnswer ==
    IF closed
    THEN <<[event |-> "errback", value |-> "Closed"]>>
    ELSE <<[event |-> "callback", value |-> "none"]>>

\* '@connect'
onConnect ==
    /\ emitted' = connectAnswer
    /\ connectRequest' = [raised |-> TRUE, closed |-> closed]
    /\ UNCHANGED stateVars
    /\ EventFrame

\* Mutant of sameState: the comparison is missing.
sameState_Never(new, stored) == FALSE

\* A state event carrying the stored value is dropped.
sameState(new, stored) == new = stored

\* Mutant of publishes: the closed flag is not consulted.
publishes_Always == TRUE

\* A state change is published on an open transport only.
publishes == ~closed

\* '@icegatheringstatechange'
onIceGatheringStateChange(s) ==
    /\ IF sameState(s, iceGatheringState)
       THEN /\ emitted' = <<>>
            /\ UNCHANGED iceGatheringState
       ELSE /\ iceGatheringState' = s
            /\ emitted' =
                  IF publishes
                  THEN <<[event |-> "icegatheringstatechange", value |-> s]>>
                  ELSE <<>>
    /\ connectRequest' = NoConnect
    /\ UNCHANGED connectionState
    /\ EventFrame

\* '@connectionstatechange'
onConnectionStateChange(s) ==
    /\ IF sameState(s, connectionState)
       THEN /\ emitted' = <<>>
            /\ UNCHANGED connectionState
       ELSE /\ connectionState' = s
            /\ emitted' =
                  IF publishes
                  THEN <<[event |-> "connectionstatechange", value |-> s]>>
                  ELSE <<>>
    /\ connectRequest' = NoConnect
    /\ UNCHANGED iceGatheringState
    /\ EventFrame

---------------------------------------------------------------------------
\* The transport after its constructor has returned.

AudioOnly == [audio |-> TRUE, video |-> FALSE]
AudioVideo == [audio |-> TRUE, video |-> TRUE]

InitWith(classes, directions, producible, sctpSizes, budget) ==
    /\ callBudget = budget
    /\ klass \in classes
    /\ direction \in directions
    /\ canProduceByKind \in producible
    /\ maxSctpMessageSize \in sctpSizes
    /\ extendedRtpCapabilities = {"opus", "VP8"}
    /\ closed = FALSE
    /\ iceGatheringState = "new"
    /\ connectionState = "new"
    /\ probatorConsumerCreated = FALSE
    /\ awaitQueue = [pending |-> <<>>, stopped |-> FALSE]
    /\ running = NoCall
    /\ detached = {}
    /\ setup = "pending"
    /\ tasks = <<>>
    /\ outcome = <<>>
    /\ pushed = {}
    /\ callLog = <<>>
    /\ statsInFlight = {}
    /\ trackStopped = {}
    /\ handlerAnswer = <<>>
    /\ executingAtClose = {}
    /\ probatorsCreated = 0
    /\ emitted = <<>>
    /\ connectRequest = NoConnect
    /\ closeCalls = 0
    /\ closeResult = "none"
    /\ queueStops = 0
    /\ handlerCloseCalls = 0
    /\ observerCloseEmits = 0

Answers == {"resolve", "reject"}
Params == {"valid", "malformed"}

---------------------------------------------------------------------------
\* The transport with its callers and its handler.

LiveTrack(kind) == [kind |-> kind, readyState |-> "live"]

\* The handler's promises settle.
Settles ==
    \/ \E a \in Answers : callSettles(a)
    \/ \E a \in Answers, p \in Params : sendSettles(a, p)
    \/ \E a \in Answers : unwindSettles(a)
    \/ \E a \in Answers, p \in Params : sendDataChannelSettles(a, p)
    \/ \E a \in Answers : receiveSettles(a)
    \/ \E a \in Answers : probatorReceiveSettles(a)
    \/ \E a \in Answers : statsSettles(a)

---------------------------------------------------------------------------
\* Spec: a sending or a receiving transport, every operation called with
\* well-formed arguments, the handler settling its calls either way, and
\* close() called at any moment.  The constructor's setup phase touches
\* nothing these actions read; it is part of SpecSetup.

Init ==
    \/ InitWith({"SendTransport"}, {"send"}, {AudioVideo}, {262144}, MaxOps)
    \/ InitWith({"RecvTransport"}, {"recv"}, {AudioVideo}, {262144}, MaxOps)

Next ==
    \/ getStats
    \/ restartIce("given")
    \/ updateIceServers("array")
    \/ produce(LiveTrack("video"), NoEncodings, TRUE)
    \/ produceData(TRUE, {}, {})
    \/ closeProducer
    \/ pauseProducer
    \/ resumeProducer
    \/ replaceTrack
    \/ setMaxSpatialLayer
    \/ setRtpEncodingParameters
    \/ getProducerStats
    \/ \E k \in MediaKinds : consume("c", "p", k, [codec |-> "VP8"])
    \/ consumeData("c", "p", "valid")
    \/ closeConsumer
    \/ pauseConsumer
    \/ resumeConsumer
    \/ getConsumerStats
    \/ Settles
    \/ \E th \in BOOLEAN : close(th)

Spec == Init /\ [][Next]_vars

---------------------------------------------------------------------------
\* SpecSetup: the constructor's asynchronous setup beside queued
\* operations and close().

InitSetup ==
    InitWith({"SendTransport"}, {"send"}, {AudioVideo}, {262144},
             MaxSetupOps)

NextSetup ==
    \/ \E a \in Answers : generateCertificateSettles(a)
    \/ restartIce("given")
    \/ pauseProducer
    \/ \E a \in Answers : callSettles(a)
    \/ \E th \in BOOLEAN : close(th)

SpecSetup == InitSetup /\ [][NextSetup]_vars

---------------------------------------------------------------------------
\* SpecState: the handler's events and close() on one transport.

InitState ==
    InitWith({"SendTransport"}, {"send"}, {AudioVideo}, {262144}, 0)

NextState ==
    \/ onConnect
    \/ \E s \in IceGatheringStates : onIceGatheringStateChange(s)
    \/ \E s \in ConnectionStates : onConnectionStateChange(s)
    \/ \E th \in BOOLEAN : close(th)

SpecState == InitState /\ [][NextState]_vars

---------------------------------------------------------------------------
\* SpecRecv: a receiving transport whose callers consume, with close().

InitRecv ==
    InitWith({"RecvTransport"}, {"recv"}, {AudioVideo}, {262144}, MaxRecvOps)

NextRecv ==
    \/ \E k \in MediaKinds : consume("c", "p", k, [codec |-> "VP8"])
    \/ consume("probator", "p", "video", [codec |-> "VP8"])
    \/ closeConsumer
    \/ \E a \in Answers : callSettles(a)
    \/ \E a \in Answers : receiveSettles(a)
    \/ \E a \in Answers : probatorReceiveSettles(a)
    \/ \E th \in BOOLEAN : close(th)

SpecRecv == InitRecv /\ [][NextRecv]_vars

---------------------------------------------------------------------------
\* SpecPreflight: transports of either class and direction, produce() and
\* consume() called with arguments of every shape.

InitPreflight ==
    \/ InitWith({"SendTransport"}, {"send", "recv"}, {AudioOnly}, {262144},
                MaxPreflightOps)
    \/ InitWith({"RecvTransport"}, {"send", "recv"}, {AudioOnly}, {262144},
                MaxPreflightOps)

NextPreflight ==
    \/ \E t \in {NoTrack, LiveTrack("audio"), LiveTrack("video"),
                 [kind |-> "audio", readyState |-> "ended"],
                 [kind |-> "video", readyState |-> "ended"]},
          e \in {NoEncodings, NotArrayEncodings}, st \in BOOLEAN :
          produce(t, e, st)
    \/ encodingsCheckThrows
    \/ \E id \in {"undefined", "c", "probator"}, k \in {"video", "other"},
          c \in {"VP8", "H265"} :
          consume(id, "p", k, [codec |-> c])
    \/ \E a \in Answers, p \in Params : sendSettles(a, p)
    \/ \E a \in Answers : unwindSettles(a)
    \/ \E a \in Answers : receiveSettles(a)
    \/ \E a \in Answers : probatorReceiveSettles(a)
    \/ \E th \in BOOLEAN : close(th)

SpecPreflight == InitPreflight /\ [][NextPreflight]_vars

---------------------------------------------------------------------------
\* SpecData: a sending transport whose callers produce data with every
\* combination of ordered, maxPacketLifeTime and maxRetransmits.

Limits == {{}, {0}, {1}}

InitData ==
    InitWith({"SendTransport"}, {"send"}, {AudioVideo}, {0, 262144},
             MaxDataOps)

NextData ==
    \/ \E o \in BOOLEAN, l \in Limits, r \in Limits : produceData(o, l, r)
    \/ \E a \in Answers, p \in Params : sendDataChannelSettles(a, p)
    \/ \E th \in BOOLEAN : close(th)

SpecData == InitData /\ [][NextData]_vars

---------------------------------------------------------------------------
\* SpecEncodings: a sending transport whose callers produce with encodings
\* of every shape: absent, empty, one entry with one field of any type,
\* entries with every field of one type, and lists of two entries.

OnlyField(f, v) == [g \in EncodingFields |-> IF g = f THEN v ELSE Absent]
AllFields(v) == [g \in EncodingFields |-> v]

TestEntries ==
    {OnlyField(f, v) : f \in EncodingFields, v \in EncodingValues}
    \cup {AllFields(v) : v \in EncodingValues \cup {Absent}}

TestEncodings ==
    {NoEncodings, ArrayOf(<<>>)}
    \cup {ArrayOf(<<e>>) : e \in TestEntries}
    \cup {ArrayOf(<<AllFields(v), OnlyField("rid", v)>>) :
             v \in EncodingValues}

InitEncodings ==
    InitWith({"SendTransport"}, {"send"}, {AudioVideo}, {262144},
             MaxEncodingOps)

NextEncodings ==
    \/ \E e \in TestEncodings : produce(LiveTrack("video"), e, TRUE)
    \/ \E a \in Answers, p \in Params : sendSettles(a, p)
    \/ \E a \in Answers : unwindSettles(a)
    \/ \E th \in BOOLEAN : close(th)

SpecEncodings == InitEncodings /\ [][NextEncodings]_vars

---------------------------------------------------------------------------
\* SpecLive: the transports and the operations of Spec, with a handler that
\* settles every call made to it, sooner or later.

InitLive ==
    \/ InitWith({"SendTransport"}, {"send"}, {AudioVideo}, {262144},
                MaxLiveOps)
    \/ InitWith({"RecvTransport"}, {"recv"}, {AudioVideo}, {262144},
                MaxLiveOps)

NextLive == Next

\* Every handler call in flight settles, the awaited ones, the
\* stopSending() that produce() does not await and the direct statistics
\* calls alike.
HandlerSettles ==
    /\ WF_vars(\E a \in Answers : callSettles(a))
    /\ WF_vars(\E a \in Answers, p \in Params : sendSettles(a, p))
    /\ WF_vars(\E a \in Answers : unwindSettles(a))
    /\ WF_vars(\E a \in Answers, p \in Params : sendDataChannelSettles(a, p))
    /\ WF_vars(\E a \in Answers : receiveSettles(a))
    /\ WF_vars(\E a \in Answers : probatorReceiveSettles(a))
    /\ WF_vars(\E a \in Answers : statsSettles(a))

SpecLive == InitLive /\ [][NextLive]_vars /\ HandlerSettles

---------------------------------------------------------------------------
\* SpecStats: the direct statistics calls beside queued operations and
\* close().

InitStats ==
    \/ InitWith({"SendTransport"}, {"send"}, {AudioVideo}, {262144},
                MaxStatsOps)
    \/ InitWith({"RecvTransport"}, {"recv"}, {AudioVideo}, {262144},
                MaxStatsOps)

NextStats ==
    \/ getStats
    \/ getProducerStats
    \/ getConsumerStats
    \/ restartIce("given")
    \/ \E a \in Answers : callSettles(a)
    \/ \E a \in Answers : statsSettles(a)
    \/ \E th \in BOOLEAN : close(th)

SpecStats == InitStats /\ [][NextStats]_vars

---------------------------------------------------------------------------
\* Properties.

\* The handler calls made so far on behalf of operation i.
CallsOf(log, i) == {k \in DOMAIN log : log[k].task = i}

\* The number of events of one kind among those the last step emitted.
Published(ev, out) == Cardinality({k \in DOMAIN out : out[k].event = ev})

\* C1: the handler sees the calls of queued operations in submission order,
\* and calls made for different operations are never in flight together
\* (the stopSending() of a failed produce() included).
C1_SerializedCalls ==
    /\ \A i, j \in DOMAIN callLog :
          i < j => callLog[i].task <= callLog[j].task
    /\ \A c1, c2 \in InFlight : c1.task = c2.task

\* C2 as claimed: on both axes a notification is published exactly when the
\* stored value changes, the change to 'closed' made by close() included.
C2_NotifiedIffChanged ==
    [][/\ IF connectionState' # connectionState
          THEN emitted' = <<[event |-> "connectionstatechange",
                             value |-> connectionState']>>
          ELSE Published("connectionstatechange", emitted') = 0
       /\ IF iceGatheringState' # iceGatheringState
          THEN emitted' = <<[event |-> "icegatheringstatechange",
                             value |-> iceGatheringState']>>
          ELSE Published("icegatheringstatechange", emitted') = 0]_vars

\* C2 as amended: on both axes a notification is published exactly when the
\* stored value changes on a transport that is not closed; it is published
\* once and carries the new value.  The change to 'closed' made by close()
\* and the changes made after close() are not notified.
C2_NotifiedIffChangedWhileOpen ==
    [][/\ IF connectionState' # connectionState /\ ~closed'
          THEN emitted' = <<[event |-> "connectionstatechange",
                             value |-> connectionState']>>
          ELSE Published("connectionstatechange", emitted') = 0
       /\ IF iceGatheringState' # iceGatheringState /\ ~closed'
          THEN emitted' = <<[event |-> "icegatheringstatechange",
                             value |-> iceGatheringState']>>
          ELSE Published("icegatheringstatechange", emitted') = 0]_vars

\* C2 witness: a change on an open transport has just been notified.
C2_Witness ==
    /\ ~closed
    /\ connectionState = "connected"
    /\ emitted = <<[event |-> "connectionstatechange",
                    value |-> "connected"]>>

\* C3: once the connection state is 'closed' it stays 'closed'.
C3_ClosedIsTerminal ==
    [][connectionState = "closed" => connectionState' = "closed"]_vars

\* C4: when close() runs, every operation waiting in the queue settles with
\* the queue's stopped failure; it keeps that outcome and the handler is
\* never called for it.
C4_WaitingRejectedByClose ==
    [][/\ (~closed /\ closed') =>
             \A i \in Range(awaitQueue.pending) :
                /\ outcome'[i] = "Stopped"
                /\ CallsOf(callLog', i) = {}
       /\ \A i \in DOMAIN outcome :
             outcome[i] = "Stopped" =>
                /\ outcome'[i] = "Stopped"
                /\ CallsOf(callLog', i) = CallsOf(callLog, i)]_vars

\* C4 witness: an operation submitted before close() was rejected by it
\* while it waited.
C4_Witness ==
    \E i \in DOMAIN tasks :
       /\ ~tasks[i].afterClose
       /\ outcome[i] = "Stopped"
       /\ CallsOf(callLog, i) = {}

\* The outcome of a task as a function of the handler's answer to its call.
OutcomeOf(answer) ==
    CASE answer = "resolve" -> "ok"
      [] answer = "reject" -> "AdapterFailure"
      [] answer = "malformed" -> "Malformed"
      [] OTHER -> "unanswered"

\* C5: an operation executing when close() runs stays pending until the
\* handler answers, and then settles with the outcome that answer gives.
C5_ExecutingKeepsOutcome ==
    \A i \in executingAtClose :
       \/ outcome[i] = "pending"
       \/ outcome[i] = OutcomeOf(handlerAnswer[i])

\* C5 witness: an operation that was executing at close() has settled with
\* the handler's result.
C5_Witness ==
    \E i \in executingAtClose : outcome[i] = "ok"

\* C6: over any number of close() calls the queue is stopped once, the
\* handler is closed once and one 'close' event is raised.
C6_CloseIdempotent ==
    closeCalls >= 1 =>
       /\ queueStops = 1
       /\ handlerCloseCalls = 1
       /\ observerCloseEmits = 1

\* C7: close() never throws, and once it has run the 'close' event has been
\* raised, also when the handler's close() fails.
C7_CloseNeverFails ==
    closeCalls >= 1 =>
       /\ closeResult = "returned"
       /\ observerCloseEmits >= 1

\* The failures that tell a caller the transport was closed: the error
\* thrown on the closed flag and the rejection by the stopped queue.
ClosedFailure(o) == o \in {"Closed", "Stopped"}

\* C8: every operation called on a closed transport fails with the closed
\* failure, and fails before it is handed to the queue.
C8_ClosedBeforeEnqueue ==
    \A i \in DOMAIN tasks :
       tasks[i].afterClose =>
          ClosedFailure(outcome[i]) /\ i \notin pushed

\* A produce() of a kind that cannot be produced, or a consume() of
\* parameters that cannot be received.
Incompatible(t) ==
    \/ /\ t.op = "produce"
       /\ t.args.track # NoTrack
       /\ ~canProduceByKind[t.args.track.kind]
    \/ /\ t.op = "consume"
       /\ ~canReceive(t.args.rtpParameters, extendedRtpCapabilities)

\* The checks that come before the capability check pass.
ReachesCapabilityCheck(t) ==
    /\ ~t.afterClose
    /\ t.op = "consume" =>
          /\ t.args.id # "undefined"
          /\ t.args.producerId # "undefined"
          /\ t.args.kind \in MediaKinds

\* C9: an incompatible produce() or consume() fails synchronously, is not
\* handed to the queue and causes no handler call; it fails with
\* Unsupported when it is made on an open transport with well-formed
\* arguments.
C9_IncompatibleNeverReachesHandler ==
    \A i \in DOMAIN tasks :
       Incompatible(tasks[i]) =>
          /\ i \notin pushed
          /\ CallsOf(callLog, i) = {}
          /\ outcome[i] \in {"Unsupported", "Closed", "TypeError"}
          /\ ReachesCapabilityCheck(tasks[i]) => outcome[i] = "Unsupported"

\* C9 witness: a produce() of an unproducible kind on an open sending
\* transport has failed with Unsupported.
C9_Witness ==
    \E i \in DOMAIN tasks :
       /\ tasks[i].op = "produce"
       /\ direction = "send"
       /\ Incompatible(tasks[i])
       /\ ReachesCapabilityCheck(tasks[i])
       /\ outcome[i] = "Unsupported"

\* The probator receive begun by this step, if any.
ProbatorRequested ==
    /\ Len(callLog') = Len(callLog) + 1
    /\ callLog'[Len(callLog')].probator

\* C10: at most one probator receive ever resolves; the marker is set
\* exactly when one has resolved and is never reset; a probator receive is
\* requested only by a video consume() and only while the marker is unset.
C10_OneProbator ==
    [][/\ probatorsCreated' <= 1
       /\ probatorConsumerCreated' <=> probatorsCreated' = 1
       /\ probatorConsumerCreated => probatorConsumerCreated'
       /\ ProbatorRequested =>
             /\ ~probatorConsumerCreated
             /\ tasks[callLog'[Len(callLog')].task].args.kind = "video"]_vars

\* C10 witness: the probator exists and two video consume() calls have
\* succeeded.
C10_Witness ==
    /\ probatorConsumerCreated
    /\ probatorsCreated = 1
    /\ Cardinality({i \in DOMAIN tasks :
                      /\ tasks[i].op = "consume"
                      /\ tasks[i].args.kind = "video"
                      /\ outcome[i] = "ok"}) >= 2

\* The handler has just resolved the receive of consume() number i.
OwnReceiveResolves(i) ==
    /\ tasks[i].op = "consume"
    /\ handlerAnswer[i] = "none"
    /\ handlerAnswer'[i] = "resolve"

\* The probator receive has just settled without creating the probator.
ProbatorFailed ==
    /\ running.probator
    /\ ~running'.probator
    /\ probatorsCreated' = probatorsCreated

\* C11: a probator receive that fails leaves the marker unset; as long as
\* no probator receive has succeeded the marker is unset, and every video
\* consume() whose own receive resolves requests the probator again.
C11_ProbeRetried ==
    [][/\ ProbatorFailed => ~probatorConsumerCreated'
       /\ probatorsCreated = 0 => ~probatorConsumerCreated
       /\ \A i \in DOMAIN tasks :
             (/\ OwnReceiveResolves(i)
              /\ tasks[i].args.kind = "video"
              /\ probatorsCreated = 0) =>
                /\ ProbatorRequested
                /\ callLog'[Len(callLog')].task = i]_vars

\* C11 witness: the probator was requested by one consume() and failed,
\* was requested again by a later consume() and then succeeded.
C11_Witness ==
    /\ probatorConsumerCreated
    /\ \E k1, k2 \in DOMAIN callLog :
          /\ callLog[k1].probator
          /\ callLog[k2].probator
          /\ callLog[k1].task < callLog[k2].task

\* C12: a consume() handed to the queue settles with the outcome that the
\* handler's answer to its own receive gives, whatever becomes of the
\* probator receive; until then it is waiting or executing.
C12_ProbeNeverChangesOutcome ==
    \A i \in DOMAIN tasks :
       (tasks[i].op = "consume" /\ i \in pushed) =>
          /\ outcome[i] \in
                {"pending",
                 IF handlerAnswer[i] = "none" THEN "Stopped"
                 ELSE OutcomeOf(handlerAnswer[i])}
          /\ outcome[i] = "pending" =>
                (running.task = i \/ i \in Range(awaitQueue.pending))

\* C12 witness: a video consume() has succeeded although the probator
\* receive it requested failed.
C12_Witness ==
    \E i \in DOMAIN tasks :
       /\ tasks[i].op = "consume"
       /\ outcome[i] = "ok"
       /\ probatorsCreated = 0
       /\ \E k \in CallsOf(callLog, i) : callLog[k].probator

\* A produce() called with a track.
ProduceWithTrack(i) ==
    tasks[i].op = "produce" /\ tasks[i].args.track # NoTrack

\* C13: a produce() that failed with stopTracks set has stopped its track,
\* whatever made it fail; a produce() with stopTracks unset never stops it.
C13_TrackStoppedOnFailure ==
    \A i \in DOMAIN tasks :
       ProduceWithTrack(i) =>
          IF tasks[i].args.stopTracks
          THEN outcome[i] \notin {"pending", "ok"} => i \in trackStopped
          ELSE i \notin trackStopped

\* C14: in the step in which the parameters returned by send() fail
\* validation, stopSending() is called for that produce() and the produce()
\* fails with the validation failure; it keeps that outcome however the
\* stopSending() settles.
C14_UnwoundBeforeFailure ==
    [][\A i \in DOMAIN outcome :
          /\ (/\ tasks[i].op = "produce"
              /\ handlerAnswer[i] # "malformed"
              /\ handlerAnswer'[i] = "malformed")
                => /\ outcome'[i] = "Malformed"
                   /\ \E k \in CallsOf(callLog', i) \ CallsOf(callLog, i) :
                         callLog'[k].method = "stopSending"
          /\ outcome[i] = "Malformed" => outcome'[i] = "Malformed"]_vars

\* C14 witness: a produce() failed validation, stopSending() was called for
\* it and has settled.
C14_Witness ==
    \E i \in DOMAIN tasks :
       /\ tasks[i].op = "produce"
       /\ outcome[i] = "Malformed"
       /\ \E k \in CallsOf(callLog, i) : callLog[k].method = "stopSending"
       /\ detached = {}

\* C15: produceData() hands ordered = FALSE to the handler when
\* maxPacketLifeTime or maxRetransmits is given, 0 included, and the
\* caller's ordered otherwise.
C15_LimitForcesUnordered ==
    \A i \in DOMAIN tasks :
       tasks[i].op = "produceData" =>
          tasks[i].args.handlerOrdered =
             IF tasks[i].args.maxPacketLifeTime # {}
                \/ tasks[i].args.maxRetransmits # {}
             THEN FALSE ELSE tasks[i].args.ordered

\* C16: no handler call of a queued operation begins before the
\* constructor's setup has called the handler's run().
C16_NoCallBeforeRun ==
    callLog # <<>> => setup = "run"

\* The place of a gathering state in new -> gathering -> complete.
GatheringRank(s) ==
    CASE s = "new" -> 0 [] s = "gathering" -> 1 [] s = "complete" -> 2

\* C17: the gathering state never moves back.
C17_GatheringMonotonic ==
    [][GatheringRank(iceGatheringState') >=
       GatheringRank(iceGatheringState)]_vars

\* C18: the step that handles a '@connect' answers it once: with errback
\* and the closed failure on a closed transport, with callback otherwise;
\* no other step calls either.
C18_ConnectAnsweredOnce ==
    IF connectRequest.raised
    THEN emitted = <<IF connectRequest.closed
                     THEN [event |-> "errback", value |-> "Closed"]
                     ELSE [event |-> "callback", value |-> "none"]>>
    ELSE Published("errback", emitted) + Published("callback", emitted) = 0

\* C18 witness: a '@connect' raised after close() has just been denied.
C18_Witness ==
    /\ connectRequest = [raised |-> TRUE, closed |-> TRUE]
    /\ closed
    /\ emitted = <<[event |-> "errback", value |-> "Closed"]>>

StatsOps == {"getStats", "getProducerStats", "getConsumerStats"}

\* What a statistics call must leave alone.
StatsFrame ==
    UNCHANGED <<closed, iceGatheringState, connectionState,
                probatorConsumerCreated, awaitQueue, running, detached,
                callLog, pushed>>

\* C19: a statistics call is never handed to the queue; on an open
\* transport its handler call is in flight as soon as it is made, on a
\* closed one it fails at once; neither the call nor its settlement
\* changes the closed flag, the states, the probator marker or the queue.
C19_StatsBypassQueue ==
    [][/\ \A i \in DOMAIN tasks' :
             (i \notin DOMAIN tasks /\ tasks'[i].op \in StatsOps) =>
                /\ i \notin pushed'
                /\ IF closed
                   THEN outcome'[i] = "Closed" /\ i \notin statsInFlight'
                   ELSE outcome'[i] = "pending" /\ i \in statsInFlight'
                /\ StatsFrame
       /\ statsInFlight' # statsInFlight => StatsFrame]_vars

\* C19 witness: a statistics call is in flight that was made while one
\* queued operation was executing and another was waiting.
C19_Witness ==
    \E i \in statsInFlight :
       /\ running # NoCall
       /\ running.task < i
       /\ awaitQueue.pending # <<>>
       /\ Head(awaitQueue.pending) < i

\* C20: a produce() whose encodings is not an array fails without being
\* handed to the queue, with the TypeError unless an earlier check fails.
C20_BadEncodingsBeforeEnqueue ==
    \A i \in DOMAIN tasks :
       RejectsAtStart(tasks[i]) =>
          /\ i \notin pushed
          /\ outcome[i] \in {"TypeError", "Closed", "Unsupported",
                              "TrackEnded"}

\* The type produce() expects of each field it copies.
ExpectedType(f) ==
    CASE f \in {"active", "dtx", "adaptivePtime"} -> "boolean"
      [] f \in {"scalabilityMode", "priority", "networkPriority"} -> "string"
      [] f \in {"scaleResolutionDownBy", "maxBitrate", "maxFramerate"} ->
            "number"
      [] OTHER -> "none"

\* The entry h handed to the handler for the caller's entry c keeps the
\* fields of allowed and nothing else.
EntryConforms(h, c, allowed) ==
    /\ h.active = IF c.active = BoolFalse THEN BoolFalse ELSE BoolTrue
    /\ \A f \in allowed \ {"active"} :
          h[f] = IF c[f].type = ExpectedType(f) THEN c[f] ELSE Absent
    /\ \A f \in EncodingFields \ allowed : h[f] = Absent

\* Every produce() that has called _handler.send() handed it encodings
\* that keep the fields of allowed only, and no encodings for an empty or
\* absent list.
EncodingsConform(allowed) ==
    \A k \in DOMAIN callLog :
       callLog[k].method = "send" =>
          LET c == tasks[callLog[k].task].args.encodings
              h == tasks[callLog[k].task].args.handlerEncodings
          IN  IF c.kind = "undefined" \/ c.entries = <<>>
              THEN h = NoEncodings
              ELSE /\ h.kind = "array"
                   /\ DOMAIN h.entries = DOMAIN c.entries
                   /\ \A n \in DOMAIN c.entries :
                         EntryConforms(h.entries[n], c.entries[n], allowed)

ClaimedFields ==
    {"active", "dtx", "scalabilityMode", "scaleResolutionDownBy",
     "maxBitrate", "maxFramerate", "priority", "networkPriority"}

\* C21 as claimed: the entries handed to the handler keep active, dtx,
\* scalabilityMode, scaleResolutionDownBy, maxBitrate, maxFramerate,
\* priority and networkPriority, each when of the expected type, and drop
\* every other field; an empty list is handed on as absent.
C21_OnlyClaimedFields == EncodingsConform(ClaimedFields)

\* C21 as amended: the same with adaptivePtime (when boolean) among the
\* fields that are kept.
C21_OnlyCopiedFields ==
    EncodingsConform(ClaimedFields \cup {"adaptivePtime"})

\* C21 witness: send() was called for a produce() whose entry had every
\* field set to a string, the unknown field included.
C21_Witness ==
    \E k \in DOMAIN callLog :
       /\ callLog[k].method = "send"
       /\ tasks[callLog[k].task].args.encodings.kind = "array"
       /\ tasks[callLog[k].task].args.encodings.entries =
             <<AllFields([type |-> "string", val |-> "s"])>>

\* Operation i has settled.
Settled(i) == i \in DOMAIN outcome /\ outcome[i] # "pending"

\* When the handler settles every call, every operation handed to the
\* queue settles.
AcceptedSettles ==
    \A i \in 1..MaxLiveOps : [](i \in pushed => <>Settled(i))

\* While one of calls is unsettled on an open transport, every operation
\* handed to the queue after the one that made the call is pending.
UnsettledCallBlocksLater(calls) ==
    \A c \in calls :
       ~closed => \A i \in pushed : i > c.task => outcome[i] = "pending"

\* The handler call the executing task awaits, if any.
AwaitedCalls == IF running.method = "none" THEN {} ELSE {running}

\* The claim of C22 for the handler calls that their task awaits.
AwaitedCallBlocksLater == UnsettledCallBlocksLater(AwaitedCalls)

\* C22: when the handler settles every call, every operation handed to the
\* queue settles; and while any handler call made for a queued operation is
\* unsettled and close() has not been called, every operation handed to
\* the queue after that operation is pending.
C22_AcceptedSettles ==
    /\ AcceptedSettles
    /\ [](UnsettledCallBlocksLater(InFlight))

\* C23: a step taken on a closed transport publishes neither state
\* notification, and on a closed transport every gathering or connection
\* state event still stores the value it carries.
C23_SilentAfterClose ==
    /\ [][closed =>
             /\ Published("icegatheringstatechange", emitted') = 0
             /\ Published("connectionstatechange", emitted') = 0]_vars
    /\ [](closed =>
             /\ \A s \in IceGatheringStates :
                   ENABLED (onIceGatheringStateChange(s)
                            /\ iceGatheringState' = s)
             /\ \A s \in ConnectionStates :
                   ENABLED (onConnectionStateChange(s)
                            /\ connectionState' = s))

\* C23 witness: after a close() that returned, events have moved both
\* stored states and the last one published nothing.
C23_Witness ==
    /\ closed
    /\ closeResult = "returned"
    /\ connectionState = "connected"
    /\ iceGatheringState = "complete"
    /\ emitted = <<>>

\* C24: the constructor's setup calls the handler's run() only while the
\* handler's close() has not been called.
C24_NoRunAfterClose ==
    [][(setup # "run" /\ setup' = "run") => handlerCloseCalls = 0]_vars

\* C25: on a closed transport no handler call begins on behalf of a queued
\* operation and the probator marker is not set.
C25_NoCallAfterClose ==
    [][closed =>
          /\ callLog' = callLog
          /\ probatorConsumerCreated' = probatorConsumerCreated]_vars

====
